---- MODULE Spec2Model ----
(***************************************************************************)
(* Digital-Pet-Backend: the chat call path of llm_service                  *)
(* (views.send_message / LLMViewSet.chat -> LangChainLLMService.chat ->    *)
(* _get_llm_response -> _parse_json_response), the ChatMessage and         *)
(* LLMConfig tables, and the handlers that read or delete chat rows.       *)
(*                                                                         *)
(* One chat request is in flight at a time; it advances in steps that are  *)
(* separated by its database statements and its calls of the LLM endpoint, *)
(* so the other handlers (one database statement each) interleave with it. *)
(***************************************************************************)
EXTENDS Integers, Sequences, FiniteSets, TLC

VARIABLES
    rows,            \* ChatMessage table, rows in created_at order
    configs,         \* LLMConfig table, rows in created_at order
    pc,              \* position of the chat request in flight
    endpoint,        \* "web" (views.send_message) or "api" (LLMViewSet.chat)
    svc_user,        \* service.user (Guest for an unauthenticated request)
    svc_config,      \* service.config, the row read by __init__
    pet_attributes,  \* service.pet_attributes, session_id -> {health, mood}
    user_message,    \* chat() argument
    session_id,      \* chat() argument
    image_data,      \* chat() argument: TRUE when image data is supplied
    emotion_info,    \* _get_llm_response local: TRUE when set
    object_info,     \* _get_llm_response local: TRUE when set
    llm_reply,       \* what the chat endpoint answered in this call
    ai_response,     \* what _get_llm_response returned
    invocations,     \* endpoint invocations made by this chat() call, in order
    written,         \* ChatMessage rows created by this chat() call, in order
    left_behind,     \* pet_attributes of the previous request's service object,
                     \* kept until this request's LLM step
    history_sent,    \* get_chat_history() result put into the prompt
    chat_response,   \* HTTP response of the chat request
    op,              \* the response of the handler (other than chat) that
                     \* completed in the last step; NoOp after a chat step
    request,         \* the body of the chat request as it was received
    log,             \* what the chat request printed that derives from its image
    users,           \* auth User table
    profiles,        \* accounts UserProfile table
    next_id,         \* the id the next User row gets
    reqs,            \* the login / registration requests in flight, per slot
    ok_logins,       \* per user id, the logins answered 200 so far
    activations      \* the activate requests in flight, per slot

vars == <<rows, configs, pc, endpoint, svc_user, svc_config, pet_attributes,
          user_message, session_id, image_data, emotion_info, object_info,
          llm_reply, ai_response, invocations, written, left_behind, history_sent,
          chat_response, op, request, log, users, profiles, next_id, reqs,
          ok_logins, activations>>

\* the tables and requests of the accounts app
acctVars == <<users, profiles, next_id, reqs, ok_logins>>

(***************************************************************************)
(* Bounds of the model                                                     *)
(***************************************************************************)
\* how far outside 0..100 the health/mood values of an LLM reply reach
Over == 2
\* ChatMessage rows the table may hold when a chat request is accepted
MaxRows == 4

(***************************************************************************)
(* Values                                                                  *)
(***************************************************************************)
Guest == "guest"                      \* request.user not authenticated -> user=None
Alice == "alice"
Bob == "bob"
AllSessions == {"default", "s1"}
None == "none"

\* services.py:203/517, 641, 649: the texts chat() produces itself
NoticeNoKey == "notice: configure the LLM api key"
ErrImport == "error: langchain not installed"
ErrLLM == "error: calling the LLM service failed"
\* the reply text of the LLM and the "message" member of a JSON reply
RawContent == "raw reply text"
PetSays == "pet says"

DefaultOptions == <<"Continue chatting", "Change the topic", "Take a break">>
ImportErrorOptions == <<"install", "docs", "later">>
ErrorOptions == <<"retry", "check config", "help">>
ReplyOptions == <<"play", "feed">>

\* a member of the reply's JSON object: absent, an integer, or a value that is
\* no number (a string, null, a list)
Absent == [t |-> "absent", v |-> 0]
NonNum == [t |-> "nonnum", v |-> 0]
IntVal(n) == [t |-> "int", v |-> n]
ReplyInts == {0 - Over, 0, 37, 100, 100 + Over}
FieldVals == {Absent, NonNum} \cup {IntVal(n) : n \in ReplyInts}

\* what llm.invoke() does and what json.loads() makes of response.content
\*   raise        llm.invoke raised (network, authentication, ...)
\*   import_error the langchain import raised ImportError
\*   text         the content is no JSON (JSONDecodeError)
\*   nonobj       the content is JSON but no object (data.get -> AttributeError)
\*   obj          the content is a JSON object with the members given
Reply(k, r, m, o, h, md) ==
    [kind |-> k, result |-> r, message |-> m, options |-> o, health |-> h, mood |-> md]
PlainReply(k) == Reply(k, "absent", FALSE, FALSE, Absent, Absent)
NoReply == PlainReply(None)
AllReplies ==
    {PlainReply(k) : k \in {"raise", "import_error", "text", "nonobj"}}
    \cup {Reply("obj", r, m, o, h, md) :
            r \in {"absent", "false"}, m \in BOOLEAN, o \in BOOLEAN,
            h \in FieldVals, md \in FieldVals}

\* the analysis the image endpoint returns (or its failure)
ImageResult(ok, face, emo, objs, desc) ==
    [ok |-> ok, has_face |-> face, detected_emotion |-> emo,
     has_objects |-> objs, object_description |-> desc]
AllImageResults ==
    {ImageResult(FALSE, FALSE, "unknown", FALSE, "")}
    \cup {ImageResult(TRUE, f, e, o, d) :
            f \in BOOLEAN, e \in {"unknown", "happy"},
            o \in BOOLEAN, d \in {"", "a ball"}}

\* an LLMConfig row; name is unique, so the names bound the table
ConfigNames == {"c1", "c2"}
Providers == {"openai", "local"}
ApiKeys == {"", "sk-1"}
Config(n, p, a, k) == [name |-> n, provider |-> p, is_active |-> a, api_key |-> k]
NoConfig == Config(None, None, FALSE, "")

\* a ChatMessage row
Row(u, r, c, s) == [user |-> u, role |-> r, content |-> c, session_id |-> s]

\* pet_attributes entries; present = FALSE: the key is not in the dict
Attrs(h, m) == [present |-> TRUE, health |-> h, mood |-> m]
NoAttrs == [present |-> FALSE, health |-> 0, mood |-> 0]
EmptyAttributes == [s \in AllSessions |-> NoAttrs]

\* the value chat() returns: a dict (is_dict) or a plain string (message)
Dict(res, msg, opts, h, m, emo, obj) ==
    [is_dict |-> TRUE, result |-> res, message |-> msg, options |-> opts,
     health |-> h, mood |-> m, detected_emotion |-> emo, detected_objects |-> obj]
Str(s) ==
    [is_dict |-> FALSE, result |-> FALSE, message |-> s, options |-> <<>>,
     health |-> 0, mood |-> 0, detected_emotion |-> FALSE, detected_objects |-> FALSE]
NoResponse == Str(None)

\* the body of a chat request
\*   BadBody      a body json.loads rejects
\*   LongMessage  a message of MaxMessageLength + 1 characters
BadBody == "{not json"
LongMessage == "a message of 10001 characters"
MaxMessageLength == 10000
PetTypes == {"fox", "dog", "snake"}

\* the image_data member of the body: absent (None), a data-URL string given in
\* blocks of 50 characters, or a JSON number
ImageValue(t, blocks) == [t |-> t, blocks |-> blocks]
NoImage == ImageValue("absent", <<>>)
Image1 == ImageValue("str", <<"data:image/png;base64,iVBORw0KGgo[50]", "AAAANSUhEUgAA[rest]">>)
NumberImage == ImageValue("number", <<>>)
\* bool(image_data), and whether len() and slicing apply to it
Truthy(img) == img.t # "absent"
Sized(img) == img.t = "str"
\* image_data[:50]
FirstChars(img) == SubSeq(img.blocks, 1, 1)

Request(msg, pet, img) == [message |-> msg, pet_type |-> pet, image_data |-> img]
NoRequest == Request("", None, NoImage)

\* the text the image endpoint returns about the picture
AnalysisText == "analysis: a smiling face, a ball"
LogEntry(at, shows) == [at |-> at, shows |-> shows]

Max(a, b) == IF a >= b THEN a ELSE b
Min(a, b) == IF a <= b THEN a ELSE b


(***************************************************************************)
(* SimpleLLMService / LangChainLLMService                                  *)
(***************************************************************************)
\* the is_active filter left out: the most recently created row
GetActiveConfig_anyRow(cfgs) ==
    IF Len(cfgs) = 0 THEN NoConfig ELSE cfgs[Len(cfgs)]

\* LLMConfig.objects.filter(is_active=True).first(); Meta.ordering is
\* ['-created_at'], so first() is the most recently created active row
GetActiveConfig(cfgs) ==
    LET active == {i \in 1..Len(cfgs) : cfgs[i].is_active}
    IN  IF active = {} THEN NoConfig
        ELSE cfgs[CHOOSE i \in active : \A j \in active : j <= i]

\* pet_attributes as an attribute shared by the service objects
ServiceInit_sharedAttributes(user) ==
    [user |-> user, config |-> GetActiveConfig(configs),
     pet_attributes |-> pet_attributes]

\* __init__: a new service object per request
ServiceInit(user) ==
    [user |-> user, config |-> GetActiveConfig(configs),
     pet_attributes |-> EmptyAttributes]

\* "not self.config or not self.config.api_key" is false
UsableConfig(c) == c # NoConfig /\ c.api_key # ""

\* the queryset of get_chat_history: the user's rows of the session, oldest
\* first, cut to limit; no query at all without a user
HistoryQuery(tbl, user, sid, limit) ==
    IF user = Guest THEN <<>>
    ELSE LET mine == SelectSeq(tbl, LAMBDA r : r.user = user /\ r.session_id = sid)
         IN  SubSeq(mine, 1, Min(limit, Len(mine)))

\* get_chat_history: the queryset as a list of {role, content} dicts
GetChatHistory(tbl, user, sid, limit) ==
    LET q == HistoryQuery(tbl, user, sid, limit)
    IN  [i \in 1..Len(q) |-> [role |-> q[i].role, content |-> q[i].content]]

\* the "if not self.user" guard left out
SaveMessage_noUserCheck(tbl, user, role, content, sid) ==
    Append(tbl, Row(user, role, content, sid))

\* save_message: the table after the call
SaveMessage(tbl, user, role, content, sid) ==
    IF user = Guest THEN tbl
    ELSE Append(tbl, Row(user, role, content, sid))

\* _get_pet_attributes
GetPetAttributes(attrs, sid) ==
    IF attrs[sid].present THEN attrs[sid] ELSE Attrs(80, 80)

\* chat() step 2: get or initialise the session's attributes; health and
\* happiness are the optional arguments (Absent = None)
InitAttributes(attrs, sid, health, happiness) ==
    IF ~attrs[sid].present
    THEN [attrs EXCEPT ![sid] =
            Attrs(IF health.t # "absent" THEN health.v ELSE 80,
                  IF happiness.t # "absent" THEN happiness.v ELSE 80)]
    ELSE [attrs EXCEPT ![sid] =
            Attrs(IF health.t # "absent" THEN health.v ELSE attrs[sid].health,
                  IF happiness.t # "absent" THEN happiness.v ELSE attrs[sid].mood)]

\* min(100, v): the lower bound forgotten
Clamp_noLowerBound(v) == Min(100, v)

\* max(0, min(100, v))
Clamp(v) == Max(0, Min(100, v))

\* the attribute write of _parse_json_response for one member
StoreClamped(attrs, sid, field, v) ==
    IF field = "health"
    THEN [attrs EXCEPT ![sid].health = Clamp(v)]
    ELSE [attrs EXCEPT ![sid].mood = Clamp(v)]

\* data.get(member, default) of the result dict, for health and mood
ResultValue(member, default) ==
    IF member.t = "int" THEN member.v ELSE default

\* the dict _parse_json_response returns when json.loads or data.get raises
DefaultDict(attrs, sid) ==
    Dict(TRUE, RawContent, DefaultOptions,
         GetPetAttributes(attrs, sid).health, GetPetAttributes(attrs, sid).mood,
         FALSE, FALSE)

\* _parse_json_response: raised = a TypeError left the function (max/min on a
\* value that is no number); attrs = pet_attributes when it returned or raised
ParseJsonResponse(reply, attrs, sid) ==
    IF reply.kind # "obj"
    THEN [raised |-> FALSE, attrs |-> attrs, result |-> DefaultDict(attrs, sid)]
    ELSE
      LET cur == GetPetAttributes(attrs, sid)
          result == Dict(reply.result # "false",
                         IF reply.message THEN PetSays ELSE RawContent,
                         IF reply.options THEN ReplyOptions ELSE DefaultOptions,
                         ResultValue(reply.health, cur.health),
                         ResultValue(reply.mood, cur.mood),
                         FALSE, FALSE)
          afterHealth == IF reply.health.t = "int"
                         THEN StoreClamped(attrs, sid, "health", reply.health.v)
                         ELSE attrs
          afterMood == IF reply.mood.t = "int"
                       THEN StoreClamped(afterHealth, sid, "mood", reply.mood.v)
                       ELSE afterHealth
      IN  IF reply.health.t = "nonnum"
          THEN [raised |-> TRUE, attrs |-> attrs, result |-> NoResponse]
          ELSE IF reply.mood.t = "nonnum"
          THEN [raised |-> TRUE, attrs |-> afterHealth, result |-> NoResponse]
          ELSE [raised |-> FALSE, attrs |-> afterMood, result |-> result]

\* the handlers of _get_llm_response: except ImportError / except Exception
ErrorDict(kind, attrs, sid) ==
    Dict(FALSE,
         IF kind = "import_error" THEN ErrImport ELSE ErrLLM,
         IF kind = "import_error" THEN ImportErrorOptions ELSE ErrorOptions,
         GetPetAttributes(attrs, sid).health, GetPetAttributes(attrs, sid).mood,
         FALSE, FALSE)

\* the try block of _get_llm_response once the endpoint has answered with
\* reply (or raised): the value returned and pet_attributes afterwards
\* "except Exception" narrowed to the failures of the invocation
LLMResponse_narrowExcept(reply, attrs, sid, emotion, objects) ==
    IF reply.kind \in {"raise", "import_error"}
    THEN [raised |-> FALSE, attrs |-> attrs,
          response |-> ErrorDict(reply.kind, attrs, sid)]
    ELSE
      LET p == ParseJsonResponse(reply, attrs, sid)
      IN  [raised |-> p.raised, attrs |-> p.attrs,
           response |-> [p.result EXCEPT !.detected_emotion = emotion,
                                         !.detected_objects = objects]]

\* (raised = an exception left _get_llm_response; both handlers return)
LLMResponse(reply, attrs, sid, emotion, objects) ==
    IF reply.kind \in {"raise", "import_error"}
    THEN [raised |-> FALSE, attrs |-> attrs,
          response |-> ErrorDict(reply.kind, attrs, sid)]
    ELSE
      LET p == ParseJsonResponse(reply, attrs, sid)
      IN  IF p.raised
          THEN [raised |-> FALSE, attrs |-> p.attrs,
                response |-> ErrorDict("raise", p.attrs, sid)]
          ELSE [raised |-> FALSE, attrs |-> p.attrs,
                response |-> [p.result EXCEPT !.detected_emotion = emotion,
                                              !.detected_objects = objects]]

\* a failed invocation tried a second time
ChatInvocations_retry(reply) ==
    IF reply.kind = "import_error" THEN <<>>
    ELSE IF reply.kind = "raise"
    THEN <<[endpoint |-> "chat", ok |-> FALSE], [endpoint |-> "chat", ok |-> FALSE]>>
    ELSE <<[endpoint |-> "chat", ok |-> TRUE]>>

\* llm.invoke(messages) at line 621: the invocations of the chat endpoint it
\* makes (none when the import before it raised)
ChatInvocations(reply) ==
    IF reply.kind = "import_error" THEN <<>>
    ELSE <<[endpoint |-> "chat", ok |-> reply.kind # "raise"]>>

\* llm.invoke([message]) at line 452
ImageInvocations(ir) == <<[endpoint |-> "image", ok |-> ir.ok]>>

\* the whole reply saved instead of its message
AssistantContent_wholeReply(resp) ==
    IF resp.is_dict THEN "str(dict)" ELSE resp.message

\* chat() step 4: the content of the assistant row
AssistantContent(resp) == resp.message

(***************************************************************************)
(* The views' responses                                                    *)
(***************************************************************************)
Response(status, body) == [status |-> status, body |-> body]
NoResponseYet == Response(0, NoResponse)

\* str.strip() on the message texts of the model
Strip(m) == IF m \in {"", "  "} THEN "" ELSE m

\* len() of the message texts of the model
Length(m) ==
    IF m = "" THEN 0
    ELSE IF m = "  " THEN 2
    ELSE IF m = LongMessage THEN MaxMessageLength + 1
    ELSE 5

\* send_message up to its validation: 0 = accepted, else the status answered.
\* The debugging prints come before the check of the message, and len() of
\* an image_data that is a number raises TypeError (-> except Exception).
WebStatus(msg, img) ==
    IF msg = BadBody THEN 400
    ELSE IF Truthy(img) /\ ~Sized(img) THEN 500
    ELSE IF Strip(msg) = "" THEN 400
    ELSE 0

\* what send_message prints of the image data (views.py:63-64)
ViewLog(msg, img) ==
    IF msg # BadBody /\ Truthy(img) /\ Sized(img)
    THEN {LogEntry("views.py:64", FirstChars(img))}
    ELSE {}

\* ChatRequestSerializer.is_valid(): 0 = valid, else the status answered
ApiStatus(msg, pet) ==
    IF Strip(msg) = "" THEN 400
    ELSE IF Length(Strip(msg)) > MaxMessageLength THEN 400
    ELSE IF pet \notin PetTypes \cup {None} THEN 400
    ELSE 0

\* what _analyze_image_content and _get_llm_response print of the analysis
AnalysisLog(ir) ==
    IF ir.ok THEN {LogEntry("services.py:454", <<AnalysisText>>)}
    ELSE {LogEntry("services.py:491", <<"error">>)}

\* views.send_message lines 83-96 / LLMViewSet.chat lines 94-124
ChatResponse(ep, resp) ==
    IF ep = "web" THEN Response(200, resp)
    ELSE IF resp.is_dict
    THEN Response(200, Dict(resp.result, resp.message, resp.options,
                            resp.health, resp.mood, FALSE, FALSE))
    ELSE Response(200, resp)


\* the response of a handler: who asked, the HTTP status, the number it
\* reports and the rows (or figures) it returns
Op(kind, user, sid, status, count, result) ==
    [kind |-> kind, user |-> user, session_id |-> sid, status |-> status,
     count |-> count, result |-> result]
NoOp == Op(None, None, None, 0, 0, <<>>)

(***************************************************************************)
(* The chat request: views.send_message ("web") and LLMViewSet.chat ("api") *)
(***************************************************************************)
chatVars == <<pc, endpoint, svc_user, svc_config, pet_attributes, user_message,
              session_id, image_data, emotion_info, object_info, llm_reply,
              ai_response, invocations, written, left_behind, history_sent, chat_response,
              request, log>>

\* The request arrives: validation, then LangChainLLMService(user=...).
\* send_message accepts guests and image data; the API view requires an
\* authenticated user and passes no image data.
Receive(ep, u, sid, msg, pet, img) ==
    LET status == IF ep = "web" THEN WebStatus(msg, img) ELSE ApiStatus(msg, pet)
    IN
    /\ pc \in {"idle", "done"}
    /\ Len(rows) + 2 <= MaxRows
    /\ endpoint' = ep
    /\ request' = Request(msg, pet, img)
    /\ log' = IF ep = "web" THEN ViewLog(msg, img) ELSE {}
    /\ user_message' = IF status = 0 THEN Strip(msg) ELSE ""
    /\ session_id' = sid
    /\ image_data' = (status = 0 /\ Truthy(img))
    /\ emotion_info' = FALSE
    /\ object_info' = FALSE
    /\ llm_reply' = NoReply
    /\ ai_response' = NoResponse
    /\ invocations' = <<>>
    /\ written' = <<>>
    /\ history_sent' = <<>>
    /\ IF status # 0
       THEN /\ pc' = "done"
            /\ chat_response' = Response(status, NoResponse)
            /\ UNCHANGED <<svc_user, svc_config, pet_attributes, left_behind>>
       ELSE /\ pc' = "save_user"
            /\ chat_response' = NoResponseYet
            /\ left_behind' = pet_attributes
            /\ svc_user' = ServiceInit(u).user
            /\ svc_config' = ServiceInit(u).config
            /\ pet_attributes' = ServiceInit(u).pet_attributes
    /\ op' = NoOp
    /\ UNCHANGED <<rows, configs, acctVars, activations>>

\* send_message does not validate pet_type (it only selects the prompt)
SendMessage(members, sessions, messages, images) ==
    \E u \in members, sid \in sessions, msg \in messages, img \in images :
        Receive("web", u, sid, msg, None, img)

ApiChat(members, sessions, messages, pets) ==
    \E u \in members \ {Guest}, sid \in sessions, msg \in messages, pet \in pets :
        Receive("api", u, sid, msg, pet, NoImage)

\* chat() steps 1 and 2, and the configuration check that opens
\* _get_llm_response; neither view passes health or happiness
SaveUserMessage ==
    /\ pc = "save_user"
    /\ rows' = SaveMessage(rows, svc_user, "user", user_message, session_id)
    /\ written' = written \o SubSeq(rows', Len(rows) + 1, Len(rows'))
    /\ pet_attributes' = InitAttributes(pet_attributes, session_id, Absent, Absent)
    /\ IF ~UsableConfig(svc_config)
       THEN /\ ai_response' = Str(NoticeNoKey)
            /\ pc' = "save_assistant"
       ELSE /\ ai_response' = ai_response
            /\ pc' = IF image_data THEN "image" ELSE "llm"
    /\ UNCHANGED <<configs, endpoint, svc_user, svc_config, user_message,
                   session_id, image_data, emotion_info, object_info,
                   llm_reply, invocations, left_behind, history_sent,
                   chat_response, request, log, acctVars, activations>>
    /\ op' = NoOp

\* _analyze_image_content: one invocation of the image endpoint; a failure is
\* caught there and the defaults are returned
AnalyzeImage(results) ==
    /\ pc = "image"
    /\ \E ir \in results :
        /\ invocations' = invocations \o ImageInvocations(ir)
        /\ emotion_info' = (ir.has_face /\ ir.detected_emotion # "unknown")
        /\ object_info' = (ir.has_objects /\ ir.object_description # "")
        /\ log' = log \cup AnalysisLog(ir)
    /\ pc' = "llm"
    /\ UNCHANGED <<rows, configs, endpoint, svc_user, svc_config, pet_attributes,
                   user_message, session_id, image_data, llm_reply,
                   ai_response, written, left_behind, history_sent,
                   chat_response, request, acctVars, activations>>
    /\ op' = NoOp

\* the try block of _get_llm_response: read the history, invoke the chat
\* endpoint once, parse the reply (an ImportError precedes the invocation)
InvokeLLM(replies) ==
    /\ pc = "llm"
    /\ history_sent' = GetChatHistory(rows, svc_user, session_id, 5)
    /\ \E reply \in replies :
        LET out == LLMResponse(reply, pet_attributes, session_id,
                               emotion_info, object_info)
        IN  /\ llm_reply' = reply
            /\ invocations' = invocations \o ChatInvocations(reply)
            /\ pet_attributes' = out.attrs
            /\ IF out.raised
               THEN \* chat() raises; the view's "except Exception" answers
                    /\ ai_response' = NoResponse
                    /\ chat_response' = Response(500, NoResponse)
                    /\ pc' = "done"
               ELSE /\ ai_response' = out.response
                    /\ chat_response' = chat_response
                    /\ pc' = "save_assistant"
    /\ left_behind' = EmptyAttributes
    /\ UNCHANGED <<rows, configs, endpoint, svc_user, svc_config, user_message,
                   session_id, image_data, emotion_info, object_info, written,
                   request, log, acctVars, activations>>
    /\ op' = NoOp

\* chat() step 4 and the view's response
SaveAssistantMessage ==
    /\ pc = "save_assistant"
    /\ rows' = SaveMessage(rows, svc_user, "assistant",
                           AssistantContent(ai_response), session_id)
    /\ written' = written \o SubSeq(rows', Len(rows) + 1, Len(rows'))
    /\ chat_response' = ChatResponse(endpoint, ai_response)
    /\ pc' = "done"
    /\ UNCHANGED <<configs, endpoint, svc_user, svc_config, pet_attributes,
                   user_message, session_id, image_data, emotion_info,
                   object_info, llm_reply, ai_response, invocations,
                   left_behind, history_sent, request, log, acctVars, activations>>
    /\ op' = NoOp

(***************************************************************************)
(* Initial states                                                          *)
(***************************************************************************)
(***************************************************************************)
(* accounts: the User and UserProfile tables and the requests on them      *)
(***************************************************************************)
\* User rows ever created (their ids are 1..MaxUsers)
MaxUsers == 5
\* logins that get as far as the profile
MaxLogins == 2

\* two requests may overlap
Slots == {1, 2}

User(id, n, e, p, a) ==
    [id |-> id, username |-> n, email |-> e, password |-> p, is_active |-> a]
NoUser == User(0, None, None, None, FALSE)
\* login_count has default 0, last_login_ip is null until the first login
UserProfile(uid, c, ip) == [user |-> uid, login_count |-> c, last_login_ip |-> ip]

GoodPassword == "Str0ng-pass"
WeakPassword == "123"
WrongPassword == "wrong"
ClientIp == "10.0.0.1"

\* '@' in username, for the names and addresses of the model
HasAt(name) ==
    name \in {"ann@x.com", "dan@x.com", "bob@x", "bob@x.com", "eve@X.com",
              "eve@x.com", "nobody@x.com"}
\* len(value) < 3
TooShort(name) == name \in {"al"}
\* create_user() -> normalize_email(): the domain part in lower case
NormalizeEmail(e) == IF e = "eve@X.com" THEN "eve@x.com" ELSE e

\* the users the tables start with: an active one, a disabled one, and an
\* active one whose username contains '@' (the username validators allow it)
InitUsers ==
    {User(1, "ann", "ann@x.com", GoodPassword, TRUE),
     User(2, "dan", "dan@x.com", GoodPassword, FALSE),
     User(3, "bob@x", "bob@x.com", GoodPassword, TRUE)}

\* a login or registration request: its inputs, the user and the login_count
\* it holds in memory, and its response
Req(kind, at, name, email, password, uid, count, status, tokens, created) ==
    [kind |-> kind, pc |-> at, name |-> name, email |-> email,
     password |-> password, uid |-> uid, count |-> count, status |-> status,
     tokens |-> tokens, created |-> created]
NoReq == Req(None, "idle", "", "", "", 0, 0, 0, FALSE, FALSE)

InitAccounts ==
    /\ users = InitUsers
    /\ profiles = {UserProfile(u.id, 0, None) : u \in InitUsers}
    /\ next_id = Cardinality(InitUsers) + 1
    /\ reqs = [s \in Slots |-> NoReq]
    /\ ok_logins = [i \in 1..MaxUsers |-> 0]

\* an activate request: its position, the LLMConfig instance get_object() put
\* into memory, its response, and whether another activate request was in
\* flight at some time between its start and its end
ActivateSlots == {1, 2}
Activation(at, config, status, overlapped) ==
    [pc |-> at, config |-> config, status |-> status, overlapped |-> overlapped]
NoActivation == Activation("idle", NoConfig, 0, FALSE)

InitWith(cfgs) ==
    /\ rows = <<>>
    /\ configs = cfgs
    /\ pc = "idle"
    /\ endpoint = "web"
    /\ svc_user = Guest
    /\ svc_config = NoConfig
    /\ pet_attributes = EmptyAttributes
    /\ user_message = ""
    /\ session_id = "default"
    /\ image_data = FALSE
    /\ emotion_info = FALSE
    /\ object_info = FALSE
    /\ llm_reply = NoReply
    /\ ai_response = NoResponse
    /\ invocations = <<>>
    /\ written = <<>>
    /\ left_behind = EmptyAttributes
    /\ history_sent = <<>>
    /\ chat_response = NoResponseYet
    /\ op = NoOp
    /\ request = NoRequest
    /\ log = {}
    /\ InitAccounts
    /\ activations = [s \in ActivateSlots |-> NoActivation]

(***************************************************************************)
(* Spec: the chat call path of one user, with every shape of LLM reply     *)
(***************************************************************************)
Init ==
    \E cfgs \in {<< >>, <<Config("c1", "openai", TRUE, "")>>,
                 <<Config("c1", "openai", TRUE, "sk-1")>>} : InitWith(cfgs)

Next ==
    \/ SendMessage({Alice}, AllSessions, {"hello", "", "  ", BadBody},
                   {NoImage, Image1, NumberImage})
    \/ ApiChat({Alice}, {"default"}, {"hello", "", "  ", LongMessage},
               {None, "fox", "cat"})
    \/ SaveUserMessage
    \/ AnalyzeImage(AllImageResults)
    \/ InvokeLLM(AllReplies)
    \/ SaveAssistantMessage

Spec == Init /\ [][Next]_vars


(***************************************************************************)
(* The handlers that read or delete ChatMessage rows                       *)
(***************************************************************************)
Reverse(q) == [i \in 1..Len(q) |-> q[Len(q) + 1 - i]]
Take(q, n) == SubSeq(q, 1, Min(n, Len(q)))

\* ChatMessage.objects.filter(user=..., session_id=...)
SessionFilter(tbl, user, sid) ==
    SelectSeq(tbl, LAMBDA r : r.user = user /\ r.session_id = sid)

\* ChatMessage.objects.filter(user=...)
UserFilter(tbl, user) == SelectSeq(tbl, LAMBDA r : r.user = user)

\* the user left out of the filter
DeleteSessionRows_anyUser(tbl, user, sid) ==
    SelectSeq(tbl, LAMBDA r : r.session_id # sid)

\* queryset.delete(): the table without the rows of the queryset
DeleteSessionRows(tbl, user, sid) ==
    SelectSeq(tbl, LAMBDA r : ~(r.user = user /\ r.session_id = sid))

\* .values('session_id').annotate(...) and the preview loop of sessions():
\* one entry per session of the user, with its row count and last content
SessionList(tbl, user) ==
    LET mine == UserFilter(tbl, user)
        ids == {mine[i].session_id : i \in 1..Len(mine)}
    IN  {[session_id |-> sid,
          message_count |-> Len(SessionFilter(tbl, user, sid)),
          preview |-> SessionFilter(tbl, user, sid)[Len(SessionFilter(tbl, user, sid))].content]
         : sid \in ids}

\* the counts of statistics(): total, user rows, assistant rows, sessions
StatisticsOf(tbl, user) ==
    LET mine == UserFilter(tbl, user)
    IN  <<Len(mine),
          Len(SelectSeq(mine, LAMBDA r : r.role = "user")),
          Len(SelectSeq(mine, LAMBDA r : r.role = "assistant")),
          Cardinality({mine[i].session_id : i \in 1..Len(mine)})>>

\* IsAuthenticated on LLMViewSet: a guest is answered 401 before the handler
Unauthorized(kind, sid) == Op(kind, Guest, sid, 401, 0, <<>>)

readVars == <<rows, configs, pc, endpoint, svc_user, svc_config, pet_attributes,
              user_message, session_id, image_data, emotion_info, object_info,
              llm_reply, ai_response, invocations, written, left_behind,
              history_sent, chat_response, request, log, acctVars, activations>>

\* views.chat_view: the session's history (limit 50) of the user, none for a guest
ChatView(members, sessions) ==
    /\ \E u \in members, sid \in sessions :
         op' = Op("chat_view", u, sid, 200,
                  Len(GetChatHistory(rows, u, sid, 50)), HistoryQuery(rows, u, sid, 50))
    /\ UNCHANGED readVars

\* views.chat_history_view: the user's last 100 rows, newest first
HistoryView(members) ==
    /\ \E u \in members :
         op' = IF u = Guest THEN Op("history", u, None, 200, 0, <<>>)
               ELSE Op("history", u, None, 200,
                       Len(Take(Reverse(UserFilter(rows, u)), 100)),
                       Take(Reverse(UserFilter(rows, u)), 100))
    /\ UNCHANGED readVars

\* LLMViewSet.messages: sid = "" stands for no session_id parameter
Messages(members, sessions, limits) ==
    /\ \E u \in members, sid \in sessions, limit \in limits :
         op' = IF u = Guest THEN Unauthorized("messages", sid)
               ELSE LET queryset == IF sid # "" THEN SessionFilter(rows, u, sid)
                                    ELSE UserFilter(rows, u)
                    IN  Op("messages", u, sid, 200, Len(queryset),
                           Take(Reverse(queryset), limit))
    /\ UNCHANGED readVars

\* LLMViewSet.sessions
Sessions(members) ==
    /\ \E u \in members :
         op' = IF u = Guest THEN Unauthorized("sessions", None)
               ELSE Op("sessions", u, None, 200,
                       Cardinality(SessionList(rows, u)), SessionList(rows, u))
    /\ UNCHANGED readVars

\* LLMViewSet.statistics
Statistics(members) ==
    /\ \E u \in members :
         op' = IF u = Guest THEN Unauthorized("statistics", None)
               ELSE Op("statistics", u, None, 200,
                       StatisticsOf(rows, u)[1], StatisticsOf(rows, u))
    /\ UNCHANGED readVars

deleteVars == <<configs, pc, endpoint, svc_user, svc_config, pet_attributes,
                user_message, session_id, image_data, emotion_info, object_info,
                llm_reply, ai_response, invocations, written, left_behind,
                history_sent, chat_response, request, log, acctVars, activations>>

\* the session left out of the filter
DeleteSessionAs_wholeUser(kind, u, sid) ==
    IF u = Guest
    THEN op' = Unauthorized(kind, sid) /\ rows' = rows
    ELSE IF sid = ""
    THEN op' = Op(kind, u, sid, 400, 0, <<>>) /\ rows' = rows
    ELSE /\ rows' = SelectSeq(rows, LAMBDA r : r.user # u)
         /\ op' = Op(kind, u, sid, 200, Len(rows) - Len(rows'), <<>>)

\* LLMViewSet.delete_session, and clear_session which calls it
DeleteSessionAs(kind, u, sid) ==
    IF u = Guest
    THEN op' = Unauthorized(kind, sid) /\ rows' = rows
    ELSE IF sid = ""
    THEN op' = Op(kind, u, sid, 400, 0, <<>>) /\ rows' = rows
    ELSE /\ rows' = DeleteSessionRows(rows, u, sid)
         /\ op' = Op(kind, u, sid, 200, Len(rows) - Len(rows'), <<>>)

DeleteSession(members, sessions) ==
    /\ \E u \in members, sid \in sessions : DeleteSessionAs("delete_session", u, sid)
    /\ UNCHANGED deleteVars

ClearSession(members, sessions) ==
    /\ \E u \in members, sid \in sessions : DeleteSessionAs("clear_session", u, sid)
    /\ UNCHANGED deleteVars

\* views.clear_history: body = "bad" is a body json.loads rejects, "{}" one
\* without session_id, else the session_id it carries
ClearHistory(members, sessions) ==
    /\ \E u \in members, body \in sessions \cup {"bad", "{}"} :
         LET sid == IF body = "{}" THEN "default" ELSE body
         IN  IF u = Guest
             THEN op' = Op("clear_history", u, None, 401, 0, <<>>) /\ rows' = rows
             ELSE IF body = "bad"
             THEN op' = Op("clear_history", u, None, 500, 0, <<>>) /\ rows' = rows
             ELSE /\ rows' = DeleteSessionRows(rows, u, sid)
                  /\ op' = Op("clear_history", u, sid, 200, Len(rows) - Len(rows'), <<>>)
    /\ UNCHANGED deleteVars

(***************************************************************************)
(* SpecStore: two users and a guest on the same sessions; chat requests    *)
(* interleaved with the handlers that read and delete rows                 *)
(***************************************************************************)
Everyone == {Alice, Bob, Guest}
Members == {Alice, Bob}
StoreReplies == {Reply("obj", "absent", TRUE, FALSE, Absent, Absent)}

InitStore == InitWith(<<Config("c1", "openai", TRUE, "sk-1")>>)

NextStore ==
    \/ SendMessage(Everyone, AllSessions, {"hello"}, {NoImage})
    \/ ApiChat({Alice}, {"default"}, {"hello"}, {None})
    \/ SaveUserMessage
    \/ InvokeLLM(StoreReplies)
    \/ SaveAssistantMessage
    \/ ChatView(Everyone, AllSessions)
    \/ HistoryView(Everyone)
    \/ Messages(Members, {"", "default"}, {1, 50})
    \/ Sessions(Members)
    \/ Statistics(Members)
    \/ DeleteSession(Everyone, AllSessions)
    \/ ClearSession(Members, AllSessions)
    \/ ClearHistory(Everyone, AllSessions)

SpecStore == InitStore /\ [][NextStore]_vars

(***************************************************************************)
(* LLMConfigViewSet (administrators)                                       *)
(***************************************************************************)
Admin == "admin"
NamesOf(cfgs) == {cfgs[i].name : i \in 1..Len(cfgs)}
IndexOf(cfgs, name) == CHOOSE i \in 1..Len(cfgs) : cfgs[i].name = name

configVars == <<rows, pc, endpoint, svc_user, svc_config, pet_attributes,
                user_message, session_id, image_data, emotion_info, object_info,
                llm_reply, ai_response, invocations, written, left_behind,
                history_sent, chat_response, request, log, acctVars, activations>>

\* create: LLMConfigCreateSerializer.validate_name rejects a name in use
CreateConfig ==
    /\ \E n \in ConfigNames, p \in Providers, a \in BOOLEAN, k \in ApiKeys :
         IF n \in NamesOf(configs)
         THEN configs' = configs /\ op' = Op("create_config", Admin, n, 400, 0, <<>>)
         ELSE /\ configs' = Append(configs, Config(n, p, a, k))
              /\ op' = Op("create_config", Admin, n, 201, 0, <<>>)
    /\ UNCHANGED configVars

\* update: LLMConfigSerializer writes provider, api_key and is_active
UpdateConfig ==
    /\ \E n \in NamesOf(configs), p \in Providers, a \in BOOLEAN, k \in ApiKeys :
         /\ configs' = [configs EXCEPT ![IndexOf(configs, n)] = Config(n, p, a, k)]
         /\ op' = Op("update_config", Admin, n, 200, 0, <<>>)
    /\ UNCHANGED configVars

\* destroy
DestroyConfig ==
    /\ \E n \in NamesOf(configs) :
         /\ configs' = SelectSeq(configs, LAMBDA c : c.name # n)
         /\ op' = Op("destroy_config", Admin, n, 200, 0, <<>>)
    /\ UNCHANGED configVars

\* the update of the provider's other rows left out
ActivateRows_keepOthers(cfgs, i) ==
    [cfgs EXCEPT ![i].is_active = TRUE]

\* activate: the active rows of the provider are set inactive, then the row
\* is saved with is_active = True
ActivateRows(cfgs, i) ==
    [j \in 1..Len(cfgs) |->
        IF j = i THEN [cfgs[j] EXCEPT !.is_active = TRUE]
        ELSE IF cfgs[j].provider = cfgs[i].provider /\ cfgs[j].is_active
        THEN [cfgs[j] EXCEPT !.is_active = FALSE]
        ELSE cfgs[j]]

Activate ==
    /\ \E n \in NamesOf(configs) :
         /\ configs' = ActivateRows(configs, IndexOf(configs, n))
         /\ op' = Op("activate", Admin, n, 200, 0, <<>>)
    /\ UNCHANGED configVars

\* deactivate
Deactivate ==
    /\ \E n \in NamesOf(configs) :
         /\ configs' = [configs EXCEPT ![IndexOf(configs, n)].is_active = FALSE]
         /\ op' = Op("deactivate", Admin, n, 200, 0, <<>>)
    /\ UNCHANGED configVars

(***************************************************************************)
(* SpecConfig: a guest's chat requests while the administrators create,    *)
(* change, activate, deactivate and delete configurations                  *)
(***************************************************************************)
ConfigReplies == {Reply("obj", "absent", TRUE, FALSE, Absent, Absent)}
ConfigImageResults == {ImageResult(TRUE, TRUE, "happy", FALSE, "")}

InitConfig == InitWith(<< >>)

NextConfig ==
    \/ SendMessage({Guest}, {"default"}, {"hello"}, {NoImage, Image1})
    \/ SaveUserMessage
    \/ AnalyzeImage(ConfigImageResults)
    \/ InvokeLLM(ConfigReplies)
    \/ SaveAssistantMessage
    \/ CreateConfig
    \/ UpdateConfig
    \/ DestroyConfig
    \/ Activate
    \/ Deactivate

SpecConfig == InitConfig /\ [][NextConfig]_vars

(***************************************************************************)
(* LLMConfigViewSet.activate, statement by statement: requests of several  *)
(* administrators are served by different workers and share the table only *)
(***************************************************************************)
activateVars == <<rows, pc, endpoint, svc_user, svc_config, pet_attributes,
                  user_message, session_id, image_data, emotion_info, object_info,
                  llm_reply, ai_response, invocations, written, left_behind,
                  history_sent, chat_response, request, log, acctVars>>

InFlight(a) == a.pc \in {"got", "updated"}

\* config = self.get_object(): 404 when there is no such row
ActivateGet(s, names) ==
    /\ ~InFlight(activations[s])
    /\ \E n \in names :
         IF n \notin NamesOf(configs)
         THEN /\ activations' = [activations EXCEPT
                    ![s] = Activation("done", NoConfig, 404, FALSE)]
              /\ op' = Op("activate", Admin, n, 404, 0, <<>>)
         ELSE /\ activations' = [t \in ActivateSlots |->
                    IF t = s
                    THEN Activation("got", configs[IndexOf(configs, n)], 0,
                                    \E o \in ActivateSlots \ {s} : InFlight(activations[o]))
                    ELSE IF InFlight(activations[t])
                    THEN [activations[t] EXCEPT !.overlapped = TRUE]
                    ELSE activations[t]]
              /\ op' = NoOp
    /\ UNCHANGED <<configs, activateVars>>

\* filter(provider=config.provider, is_active=True).update(is_active=False)
DisableProvider(cfgs, provider) ==
    [j \in 1..Len(cfgs) |->
        IF cfgs[j].provider = provider /\ cfgs[j].is_active
        THEN [cfgs[j] EXCEPT !.is_active = FALSE]
        ELSE cfgs[j]]

ActivateUpdate(s) ==
    /\ activations[s].pc = "got"
    /\ configs' = DisableProvider(configs, activations[s].config.provider)
    /\ activations' = [activations EXCEPT ![s].pc = "updated"]
    /\ op' = NoOp
    /\ UNCHANGED activateVars

\* Model.save(): every field of the instance is written to its row; a row
\* that is gone is inserted again
SaveConfig(cfgs, c) ==
    IF c.name \in NamesOf(cfgs)
    THEN [cfgs EXCEPT ![IndexOf(cfgs, c.name)] = c]
    ELSE Append(cfgs, c)

\* config.is_active = True; config.save(); Response
ActivateSave(s) ==
    /\ activations[s].pc = "updated"
    /\ LET c == [activations[s].config EXCEPT !.is_active = TRUE]
       IN  /\ configs' = SaveConfig(configs, c)
           /\ activations' = [activations EXCEPT
                 ![s] = Activation("done", c, 200, activations[s].overlapped)]
           /\ op' = Op("activate", Admin, c.name, 200, 0, <<>>)
    /\ UNCHANGED activateVars

(***************************************************************************)
(* SpecActivate: administrators create configurations and activate them,   *)
(* two activate requests at a time                                         *)
(***************************************************************************)
InitActivate == InitWith(<< >>)

NextActivate ==
    \/ CreateConfig
    \/ \E s \in ActivateSlots : ActivateGet(s, ConfigNames)
    \/ \E s \in ActivateSlots : ActivateUpdate(s)
    \/ \E s \in ActivateSlots : ActivateSave(s)

SpecActivate == InitActivate /\ [][NextActivate]_vars

(***************************************************************************)
(* AuthViewSet.login                                                       *)
(***************************************************************************)
\* everything of the chat side but op
petVars == <<rows, configs, pc, endpoint, svc_user, svc_config, pet_attributes,
             user_message, session_id, image_data, emotion_info, object_info,
             llm_reply, ai_response, invocations, written, left_behind,
             history_sent, chat_response, request, log, activations>>

\* User.objects.get(email=...) / filter(email=...), filter(username=...)
ByEmail(us, e) == {u \in us : u.email = e}
ByUsername(us, n) == {u \in us : u.username = n}
ProfilesOf(ps, uid) == {p \in ps : p.user = uid}

RECURSIVE SumTo(_, _)
SumTo(f, n) == IF n = 0 THEN 0 ELSE f[n] + SumTo(f, n - 1)

\* authenticate() with the default ModelBackend: the user, or None (NoUser)
\* for an unknown username, a wrong password or a user with is_active False
Authenticate(us, n, p) ==
    LET m == {u \in ByUsername(us, n) : u.password = p /\ u.is_active}
    IN  IF m = {} THEN NoUser ELSE CHOOSE u \in m : TRUE

\* login() up to "if not user.is_active": the status answered (0 = go on) and
\* the user; a name with '@' is looked up as an email address first, and
\* get() raises MultipleObjectsReturned when several rows have the address
LoginLookup(us, name, pw) ==
    IF name = "" \/ pw = "" THEN [status |-> 400, user |-> NoUser]
    ELSE IF HasAt(name) /\ ByEmail(us, name) = {}
    THEN [status |-> 401, user |-> NoUser]
    ELSE IF HasAt(name) /\ Cardinality(ByEmail(us, name)) > 1
    THEN [status |-> 500, user |-> NoUser]
    ELSE
      LET username == IF HasAt(name)
                      THEN (CHOOSE u \in ByEmail(us, name) : TRUE).username
                      ELSE name
          user == Authenticate(us, username, pw)
      IN  IF user = NoUser THEN [status |-> 401, user |-> NoUser]
          ELSE IF ~user.is_active THEN [status |-> 403, user |-> user]
          ELSE [status |-> 0, user |-> user]

\* the logins that are past authentication or were answered 200
LoginsAccepted ==
    SumTo(ok_logins, MaxUsers)
    + Cardinality({s \in Slots : reqs[s].kind = "login"
                                  /\ reqs[s].pc \in {"authenticated", "loaded"}})

\* login(), lines 134-171: validation, the lookup by email, authenticate()
Login(s, names, passwords) ==
    /\ reqs[s].pc \in {"idle", "done"}
    /\ \E name \in names, pw \in passwords :
         LET r == LoginLookup(users, name, pw)
         IN  /\ r.status = 0 => LoginsAccepted < MaxLogins
             /\ reqs' = [reqs EXCEPT ![s] =
                   IF r.status # 0
                   THEN Req("login", "done", name, "", pw, 0, 0, r.status, FALSE, FALSE)
                   ELSE Req("login", "authenticated", name, "", pw, r.user.id, 0, 0,
                            FALSE, FALSE)]
    /\ op' = NoOp
    /\ UNCHANGED <<users, profiles, next_id, ok_logins, petVars>>

\* user.profile (line 174): the row is read and cached on the user object;
\* RelatedObjectDoesNotExist (-> 500) when the user has no profile
LoginReadProfile(s) ==
    /\ reqs[s].kind = "login" /\ reqs[s].pc = "authenticated"
    /\ LET mine == ProfilesOf(profiles, reqs[s].uid)
       IN  reqs' = [reqs EXCEPT ![s] =
              IF mine = {}
              THEN [@ EXCEPT !.pc = "done", !.status = 500]
              ELSE [@ EXCEPT !.pc = "loaded",
                             !.count = (CHOOSE p \in mine : TRUE).login_count]]
    /\ op' = NoOp
    /\ UNCHANGED <<users, profiles, next_id, ok_logins, petVars>>

\* increment_login_count() and profile.save() (lines 174-176) write the count
\* the request holds in memory plus one, then the tokens are issued (178-191);
\* save(update_fields=...) raises DatabaseError when the row is gone
LoginSaveProfile(s) ==
    /\ reqs[s].kind = "login" /\ reqs[s].pc = "loaded"
    /\ LET uid == reqs[s].uid
           mine == ProfilesOf(profiles, uid)
       IN  IF mine = {}
           THEN /\ reqs' = [reqs EXCEPT ![s] = [@ EXCEPT !.pc = "done", !.status = 500]]
                /\ UNCHANGED <<profiles, ok_logins>>
           ELSE /\ profiles' = (profiles \ mine)
                                \cup {UserProfile(uid, reqs[s].count + 1, ClientIp)}
                /\ ok_logins' = [ok_logins EXCEPT ![uid] = @ + 1]
                /\ reqs' = [reqs EXCEPT ![s] =
                      [@ EXCEPT !.pc = "done", !.status = 200, !.tokens = TRUE,
                                !.count = reqs[s].count + 1]]
    /\ op' = NoOp
    /\ UNCHANGED <<users, next_id, petVars>>

(***************************************************************************)
(* SpecLogin: two login requests that may overlap                          *)
(***************************************************************************)
LoginNames == {"ann", "ann@x.com", "bob@x", "bob@x.com", "dan", "nobody@x.com"}
LoginPasswords == {GoodPassword, WrongPassword}

InitLogin == InitWith(<< >>)

NextLogin ==
    \/ \E s \in Slots : Login(s, LoginNames, LoginPasswords)
    \/ \E s \in Slots : LoginReadProfile(s)
    \/ \E s \in Slots : LoginSaveProfile(s)

SpecLogin == InitLogin /\ [][NextLogin]_vars

(***************************************************************************)
(* AuthViewSet.register, views.register_view, UserViewSet.update_me and    *)
(* the admin site                                                          *)
(***************************************************************************)
\* is_valid() of RegisterSerializer ("api") and of UserRegisterForm ("html");
\* only the serializer asks for three characters
RegisterValid(form, us, n, e, pw) ==
    /\ n # "" /\ e # ""
    /\ form = "api" => ~TooShort(n)
    /\ ByUsername(us, n) = {}
    /\ ByEmail(us, e) = {}
    /\ pw # WeakPassword

RegisterKind(form) == IF form = "api" THEN "register" ELSE "register_view"

RegistrationsInFlight ==
    Cardinality({s \in Slots : reqs[s].pc = "validated"})

\* the validation of a registration: the serializer's errors are answered
\* 400, the form's errors by the page with the form again (200)
Register(s, forms, names, emails, passwords) ==
    /\ reqs[s].pc \in {"idle", "done"}
    /\ next_id + RegistrationsInFlight <= MaxUsers
    /\ \E form \in forms, n \in names, e \in emails, pw \in passwords :
         reqs' = [reqs EXCEPT ![s] =
            IF RegisterValid(form, users, n, e, pw)
            THEN Req(RegisterKind(form), "validated", n, e, pw, 0, 0, 0, FALSE, FALSE)
            ELSE Req(RegisterKind(form), "done", "", "", "", 0, 0,
                     IF form = "api" THEN 400 ELSE 200, FALSE, FALSE)]
    /\ op' = NoOp
    /\ UNCHANGED <<users, profiles, next_id, ok_logins, petVars>>

\* serializer.save() -> create_user() / form.save(): the INSERT fails on the
\* unique username (IntegrityError -> 500); else the row is created, with the
\* profile that create_user_profile adds; create_user normalizes the email
RegisterCreate(s) ==
    /\ reqs[s].pc = "validated"
    /\ LET r == reqs[s]
           api == r.kind = "register"
       IN  IF ByUsername(users, r.name) # {}
           THEN /\ reqs' = [reqs EXCEPT ![s] =
                      Req(r.kind, "done", "", "", "", 0, 0, 500, FALSE, FALSE)]
                /\ UNCHANGED <<users, profiles, next_id>>
           ELSE /\ users' = users \cup
                      {User(next_id, r.name,
                            IF api THEN NormalizeEmail(r.email) ELSE r.email,
                            r.password, TRUE)}
                /\ profiles' = profiles \cup {UserProfile(next_id, 0, None)}
                /\ next_id' = next_id + 1
                /\ reqs' = [reqs EXCEPT ![s] =
                      Req(r.kind, "done", "", "", "", next_id, 0,
                          IF api THEN 201 ELSE 302, api, TRUE)]
    /\ op' = NoOp
    /\ UNCHANGED <<ok_logins, petVars>>

\* update_me: instance.save() (save_user_profile saves the profile when there
\* is one), then the profile fields of the body are written to
\* instance.profile (RelatedObjectDoesNotExist -> 500 without a profile)
UpdateMe(names) ==
    /\ \E u \in users, profile_fields \in BOOLEAN :
         /\ u.username \in names
         /\ op' = Op("update_me", u.username, None,
                     IF profile_fields /\ ProfilesOf(profiles, u.id) = {}
                     THEN 500 ELSE 200, 0, <<>>)
    /\ UNCHANGED <<acctVars, petVars>>

\* the admin site deletes a User: on_delete=CASCADE deletes the profile
AdminDeleteUser(names) ==
    /\ \E u \in users :
         /\ u.username \in names
         /\ users' = users \ {u}
         /\ profiles' = profiles \ ProfilesOf(profiles, u.id)
         /\ op' = Op("admin_delete_user", u.username, None, 200, 1, <<>>)
    /\ UNCHANGED <<next_id, reqs, ok_logins, petVars>>

\* UserProfileAdmin: a ModelAdmin with the default delete view and action
AdminDeleteProfile(names) ==
    /\ \E u \in users :
         /\ u.username \in names
         /\ ProfilesOf(profiles, u.id) # {}
         /\ profiles' = profiles \ ProfilesOf(profiles, u.id)
         /\ op' = Op("admin_delete_profile", u.username, None, 200, 1, <<>>)
    /\ UNCHANGED <<users, next_id, reqs, ok_logins, petVars>>

(***************************************************************************)
(* SpecRegister: two registrations that may overlap, profile updates and   *)
(* the deletions of the admin site                                         *)
(***************************************************************************)
RegisterNames == {"ann", "al", "eve", "fay"}
RegisterEmails == {"ann@x.com", "eve@X.com"}

InitRegister == InitWith(<< >>)

NextRegister ==
    \/ \E s \in Slots : Register(s, {"api", "html"}, RegisterNames, RegisterEmails,
                                 {GoodPassword, WeakPassword})
    \/ \E s \in Slots : RegisterCreate(s)
    \/ UpdateMe({"ann", "eve"})
    \/ AdminDeleteUser({"eve"})
    \/ AdminDeleteProfile({"ann"})

SpecRegister == InitRegister /\ [][NextRegister]_vars

(***************************************************************************)
(* Properties of the chat call path (checked under Spec)                   *)
(***************************************************************************)
\* the LLM step of this call has run
AfterLLM == pc \in {"save_assistant", "done"} /\ llm_reply # NoReply
\* the value the claims expect in place of an out-of-range one
InRange(v) == IF v < 0 THEN 0 ELSE IF v > 100 THEN 100 ELSE v
Stored == pet_attributes[session_id]
\* the reply made the LLM step take an exception handler
ReplyFails(r) ==
    \/ r.kind \in {"raise", "import_error"}
    \/ r.kind = "obj" /\ (r.health.t = "nonnum" \/ r.mood.t = "nonnum")

\* C1 as stated: after a reply that is a JSON object with an integer health
\* (resp. mood) v, the stored health (resp. mood) is max(0, min(100, v)).
C1_StoredIsClampedReply ==
    (AfterLLM /\ llm_reply.kind = "obj") =>
        /\ llm_reply.health.t = "int" => Stored.health = InRange(llm_reply.health.v)
        /\ llm_reply.mood.t = "int" => Stored.mood = InRange(llm_reply.mood.v)

\* C1 amended: the stored health is the clamped integer health of the reply;
\* the stored mood is the clamped integer mood of the reply when the reply's
\* health is absent or an integer; when the health is no number the mood keeps
\* the value it had.
C1_StoredIsClampedUnlessHealthRaises ==
    (AfterLLM /\ llm_reply.kind = "obj") =>
        /\ llm_reply.health.t = "int" => Stored.health = InRange(llm_reply.health.v)
        /\ (llm_reply.mood.t = "int" /\ llm_reply.health.t # "nonnum")
              => Stored.mood = InRange(llm_reply.mood.v)
        /\ (llm_reply.mood.t = "int" /\ llm_reply.health.t = "nonnum")
              => Stored.mood = 80

C1_Witness ==
    /\ AfterLLM /\ llm_reply.kind = "obj"
    /\ llm_reply.health = IntVal(100 + Over) /\ Stored.health = 100
    /\ llm_reply.mood = IntVal(0 - Over) /\ Stored.mood = 0

\* C2: every health and mood value chat() returns, and the views answer with,
\* lies in 0..100.
C2_ReturnedInRange ==
    /\ (AfterLLM /\ ai_response.is_dict) =>
          ai_response.health \in 0..100 /\ ai_response.mood \in 0..100
    /\ (pc = "done" /\ chat_response.status = 200 /\ chat_response.body.is_dict) =>
          chat_response.body.health \in 0..100 /\ chat_response.body.mood \in 0..100

\* C3: the service object of a request starts with no attributes, and the
\* session of the request starts at health 80 and mood 80, whatever the
\* previous request's service object held.
C3_AttributesResetPerRequest ==
    /\ pc = "save_user" => \A s \in AllSessions : ~pet_attributes[s].present
    /\ pc \in {"image", "llm"} =>
          /\ Stored = Attrs(80, 80)
          /\ \A s \in AllSessions \ {session_id} : ~pet_attributes[s].present

C3_Witness ==
    /\ pc = "llm"
    /\ left_behind[session_id].present
    /\ left_behind[session_id].health = 100
    /\ left_behind[session_id].mood = 0
    /\ Stored = Attrs(80, 80)

\* C4: a chat() call of an authenticated user creates exactly two rows of its
\* session: the user row with the user message, before any endpoint is
\* invoked, then the assistant row with the reply's message (a dict) or the
\* reply itself (a string); also when the LLM step fails or nothing is
\* configured.
UserRow == Row(svc_user, "user", user_message, session_id)
AssistantRow ==
    Row(svc_user, "assistant", ai_response.message, session_id)
LastRows(n) == SubSeq(rows, Len(rows) - n + 1, Len(rows))
C5_FailureIsADict ==
    (AfterLLM /\ ReplyFails(llm_reply)) =>
        /\ ai_response.is_dict
        /\ ai_response.result = FALSE
        /\ ai_response.message \in {ErrImport, ErrLLM}
        /\ Len(ai_response.options) = 3
        /\ ai_response.health = Stored.health
        /\ ai_response.mood = Stored.mood
        /\ pc = "done" =>
              /\ chat_response.status = 200
              /\ chat_response.body.is_dict
              /\ chat_response.body.result = FALSE
              /\ chat_response.body.message = ai_response.message

C5_Witness ==
    /\ pc = "done" /\ endpoint = "web"
    /\ llm_reply.kind = "obj" /\ llm_reply.mood.t = "nonnum"
    /\ ai_response.is_dict /\ ai_response.result = FALSE
    /\ chat_response.status = 200

\* C6 as stated: once an invocation of this call has failed, the call makes no
\* further invocation.
C6_NothingAfterAFailure ==
    \A i \in 1..Len(invocations) : ~invocations[i].ok => i = Len(invocations)

\* C6 amended: in one chat() call the chat endpoint is invoked at most once
\* and the image endpoint at most once, the latter only when image data is
\* supplied and before the former; no endpoint is invoked again after it
\* failed, but a failed image invocation is still followed by the chat one.
InvocationsOf(e) == SelectSeq(invocations, LAMBDA c : c.endpoint = e)
C6_AtMostOncePerEndpoint ==
    /\ Len(InvocationsOf("chat")) <= 1
    /\ Len(InvocationsOf("image")) <= 1
    /\ Len(InvocationsOf("image")) = 1 => image_data /\ invocations[1].endpoint = "image"
    /\ (pc = "done" /\ llm_reply.kind \in {"raise", "text", "nonobj", "obj"}) =>
          /\ Len(InvocationsOf("chat")) = 1
          /\ Len(InvocationsOf("image")) = (IF image_data THEN 1 ELSE 0)

C6_Witness ==
    /\ pc = "done"
    /\ invocations = <<[endpoint |-> "image", ok |-> FALSE],
                       [endpoint |-> "chat", ok |-> FALSE]>>


(***************************************************************************)
(* Properties of the stored rows (checked under SpecStore)                 *)
(***************************************************************************)
DeleteKinds == {"delete_session", "clear_session", "clear_history"}
\* the positions of the rows of user u (in session sid) in table tbl
RowsOfUser(tbl, u) == {i \in 1..Len(tbl) : tbl[i].user = u}
RowsOfSession(tbl, u, sid) ==
    {i \in 1..Len(tbl) : tbl[i].user = u /\ tbl[i].session_id = sid}
Others(tbl, u) == SelectSeq(tbl, LAMBDA r : r.user # u)

\* C7: no handler returns, counts or deletes a row of another user than the
\* one who asks, also when both users use the same session_id.
C7_ReadsOwnRowsOnly ==
    /\ op.kind \in {"chat_view", "history", "messages"} =>
          \A i \in 1..Len(op.result) : op.result[i].user = op.user
    /\ op.kind = "chat_view" =>
          op.count = Cardinality(RowsOfSession(rows, op.user, op.session_id))
    /\ op.kind = "history" => op.count = Cardinality(RowsOfUser(rows, op.user))
    /\ (op.kind = "messages" /\ op.status = 200) =>
          op.count = IF op.session_id = ""
                     THEN Cardinality(RowsOfUser(rows, op.user))
                     ELSE Cardinality(RowsOfSession(rows, op.user, op.session_id))
    /\ (op.kind = "sessions" /\ op.status = 200) =>
          \A e \in op.result :
             e.message_count =
                Cardinality(RowsOfSession(rows, op.user, e.session_id))
    /\ (op.kind = "statistics" /\ op.status = 200) =>
          /\ op.result[1] = Cardinality(RowsOfUser(rows, op.user))
          /\ op.result[2] + op.result[3] = op.result[1]
C7_DeletesOwnRowsOnly ==
    /\ op'.kind \in DeleteKinds =>
          /\ Others(rows', op'.user) = Others(rows, op'.user)
          /\ op'.count <= Cardinality(RowsOfUser(rows, op'.user))
    /\ (pc = "llm" /\ pc' = "save_assistant") =>
          Len(history_sent') =
             Min(5, Cardinality(RowsOfSession(rows, svc_user, session_id)))
\* C7: reads return and count the asking user's rows only, and deletes leave
\* the rows of every other user in place.
C7_Ownership == []C7_ReadsOwnRowsOnly /\ [][C7_DeletesOwnRowsOnly]_vars

C7_Witness ==
    /\ op.kind = "delete_session" /\ op.user = Alice /\ op.count = 2
    /\ RowsOfSession(rows, Bob, op.session_id) # {}
    /\ RowsOfSession(rows, Alice, op.session_id) = {}

\* C8: delete_session, clear_session and clear_history delete all and only the
\* asking user's rows of the session, report how many they deleted and leave
\* every other row as it was; a delete right after one of the same session
\* succeeds and reports 0.
C8_DeleteStep ==
    /\ (op'.kind \in DeleteKinds /\ op'.status = 200) =>
          /\ rows' = SelectSeq(rows, LAMBDA r :
                        ~(r.user = op'.user /\ r.session_id = op'.session_id))
          /\ op'.count = Cardinality(RowsOfSession(rows, op'.user, op'.session_id))
    /\ (op'.kind \in DeleteKinds /\ op'.status # 200) => rows' = rows
    /\ (op'.kind \in {"delete_session", "clear_session"}
          /\ op'.user # Guest /\ op'.session_id # "") => op'.status = 200
    /\ (op.kind \in DeleteKinds /\ op.status = 200 /\ op'.kind \in DeleteKinds
          /\ op'.user = op.user /\ op'.session_id = op.session_id) =>
          op'.status = 200 /\ op'.count = 0
\* C8: every delete step removes exactly the asking user's rows of the session
\* and reports their number.
C8_DeleteSessionFrame == [][C8_DeleteStep]_vars

C8_Witness ==
    /\ op.kind = "clear_history" /\ op.status = 200 /\ op.count = 2
    /\ RowsOfSession(rows, op.user, op.session_id) = {}
    /\ RowsOfUser(rows, op.user) # {}

\* C9: a guest's chat returns a reply and creates no row, the history of a
\* guest is empty, and clear_history answers a guest 401 and deletes nothing.
GuestChat == svc_user = Guest /\ pc \in {"save_assistant", "done"} /\ llm_reply # NoReply
C9_GuestState ==
    /\ RowsOfUser(rows, Guest) = {}
    /\ GuestChat => written = <<>> /\ history_sent = <<>>
    /\ (GuestChat /\ pc = "done") =>
          /\ chat_response.status = 200
          /\ chat_response.body.message = PetSays
    /\ (op.kind = "chat_view" /\ op.user = Guest) => op.result = <<>> /\ op.count = 0
C9_GuestStep ==
    /\ (op'.kind = "clear_history" /\ op'.user = Guest) =>
          op'.status = 401 /\ rows' = rows
    /\ (pc' # pc /\ svc_user' = Guest) => rows' = rows
\* C9: a guest never owns a row, gets a reply and an empty history, and is
\* refused by clear_history with nothing deleted.
C9_GuestLeavesNoTrace == []C9_GuestState /\ [][C9_GuestStep]_vars

C9_Witness ==
    /\ GuestChat /\ pc = "done"
    /\ chat_response.status = 200
    /\ Len(rows) = 2 /\ rows[1].session_id = session_id


(***************************************************************************)
(* Properties of the configuration in use (checked under SpecConfig)       *)
(***************************************************************************)
\* C10: the service works with the most recently created row that was active
\* when it was built; an endpoint is invoked only with such a row that has a
\* non-empty api_key; with no such row, or with an empty key in it, no endpoint
\* is invoked and chat() returns the notice string, not a dict.
C10_ConfigState ==
    /\ invocations # <<>> =>
          /\ svc_config # NoConfig
          /\ svc_config.is_active
          /\ svc_config.api_key # ""
    /\ (pc \in {"save_assistant", "done"} /\ chat_response.status # 400
          /\ (svc_config = NoConfig \/ svc_config.api_key = "")) =>
          /\ invocations = <<>>
          /\ ~ai_response.is_dict
          /\ ai_response.message = NoticeNoKey
    /\ (pc = "done" /\ chat_response.status = 200 /\ invocations = <<>>
          /\ llm_reply.kind # "import_error") =>
          chat_response.body = Str(NoticeNoKey)
C10_ConfigRead ==
    (pc \in {"idle", "done"} /\ pc' = "save_user") =>
        \/ /\ svc_config' = NoConfig
           /\ \A i \in 1..Len(configs) : ~configs[i].is_active
        \/ \E i \in 1..Len(configs) :
              /\ svc_config' = configs[i]
              /\ configs[i].is_active
              /\ \A j \in (i + 1)..Len(configs) : ~configs[j].is_active
\* C10: the row the service reads is an active one, and an endpoint is invoked
\* only with an active row that has a key; otherwise chat() returns the notice.
C10_OnlyEnabledConfigUsed == []C10_ConfigState /\ [][C10_ConfigRead]_vars

C10_Witness ==
    /\ pc = "done" /\ Len(invocations) = 2
    /\ svc_config.name = "c1" /\ svc_config.is_active /\ svc_config.api_key = "sk-1"
    /\ Len(configs) = 2 /\ configs[1].name = "c1" /\ ~configs[2].is_active
    /\ configs[1].is_active

\* C11: when activate(c) completes, c is active, every other configuration of
\* c's provider is inactive, and the configurations of the other providers
\* keep their is_active value; nothing else of any row changes.
C11_ActivateStep ==
    op'.kind = "activate" =>
        /\ op'.session_id \in NamesOf(configs)
        /\ Len(configs') = Len(configs)
        /\ LET c == IndexOf(configs, op'.session_id)
           IN  \A j \in 1..Len(configs) :
                 /\ configs'[j] = [configs[j] EXCEPT !.is_active = configs'[j].is_active]
                 /\ j = c => configs'[j].is_active
                 /\ (j # c /\ configs[j].provider = configs[c].provider)
                       => ~configs'[j].is_active
                 /\ configs[j].provider # configs[c].provider
                       => configs'[j].is_active = configs[j].is_active
\* C11: every completed activate leaves its row the only active one of its
\* provider and the other providers' rows as they were.
C11_ActivateIsExclusivePerProvider == [][C11_ActivateStep]_vars

\* the chat request in flight read c2 while it was the active row; c1 of the
\* same provider has been activated since
C11_Witness ==
    /\ op.kind = "activate" /\ op.session_id = "c1" /\ op.status = 200
    /\ Len(configs) = 2
    /\ configs[1].provider = configs[2].provider
    /\ svc_config.name = "c2" /\ svc_config.is_active /\ pc = "llm"
    /\ configs[IndexOf(configs, "c1")].is_active
    /\ ~configs[IndexOf(configs, "c2")].is_active


(***************************************************************************)
(* Properties of the request handling (checked under Spec)                 *)
(***************************************************************************)
\* the blocks of the image data the request carries
ImageBlocks ==
    {request.image_data.blocks[k] : k \in 1..Len(request.image_data.blocks)}

\* C12: for a chat request that carries image data, no ChatMessage row holds a
\* part of the image data (the user row holds the original message text), and
\* nothing the request writes to the log holds a part of the image data.
C12_ImagePrivacy ==
    Truthy(request.image_data) =>
        /\ \A i \in 1..Len(rows) : rows[i].content \notin ImageBlocks
        /\ written # <<>> => written[1].content = Strip(request.message)
        /\ \A e \in log : \A k \in 1..Len(e.shows) : e.shows[k] \notin ImageBlocks

\* the request is one of the invalid requests C13 lists
InvalidRequest ==
    \/ /\ endpoint = "api"
       /\ \/ Strip(request.message) = ""
          \/ Length(request.message) > MaxMessageLength
          \/ request.pet_type \notin PetTypes \cup {None}
    \/ /\ endpoint = "web"
       /\ \/ request.message = BadBody
          \/ Strip(request.message) = ""

\* C13: an API chat request with a missing or blank message, a message of more
\* than 10000 characters or an unknown pet_type, and a send_message request
\* with an empty or blank message or a body that is no JSON, is answered 400,
\* creates no ChatMessage row and invokes no endpoint.
C13_ValidationFailuresAre400 ==
    (pc = "done" /\ InvalidRequest) =>
        /\ chat_response.status = 400
        /\ written = <<>>
        /\ invocations = <<>>

\* C19: when the LLM step ends in the error path (chat() returns the error
\* dict with result False), the stored health and mood of the session are
\* those of immediately before the step, whatever the reply was.
C19_ErrorStep ==
    (/\ pc = "llm" /\ pc' = "save_assistant"
     /\ ai_response'.is_dict /\ ai_response'.result = FALSE
     /\ ai_response'.message \in {ErrImport, ErrLLM}) =>
        pet_attributes'[session_id] = pet_attributes[session_id]
\* C19: every LLM step that returns the error dict leaves the session's stored
\* health and mood as they were.
C19_StateUnchangedOnError == [][C19_ErrorStep]_vars

(***************************************************************************)
(* Turns of a session (checked under SpecStore)                            *)
(***************************************************************************)
RoleRows(q, role) == SelectSeq(q, LAMBDA r : r.role = role)

\* C20: once the chat request and the deletes of a session have completed,
\* the user's rows of the session are complete turns: as many user rows as
\* assistant rows, and every assistant row right after its user row.
C20_CompleteTurnsOnly ==
    pc \in {"idle", "done"} =>
        \A u \in Members, sid \in AllSessions :
            LET q == SessionFilter(rows, u, sid)
            IN  /\ Len(RoleRows(q, "user")) = Len(RoleRows(q, "assistant"))
                /\ \A i \in 1..Len(q) :
                      q[i].role = "assistant" => (i > 1 /\ q[i - 1].role = "user")

(***************************************************************************)
(* Properties of login (checked under SpecLogin)                           *)
(***************************************************************************)
\* the request gave the username or the email address of u, and u's password
CorrectLoginOf(r, u) ==
    (r.name = u.username \/ r.name = u.email) /\ r.password = u.password

\* C14: a login whose 'username' is the username or the email address of an
\* active user, with that user's password, is answered 200 with tokens.
C14_LoginByUsernameOrEmail ==
    \A s \in Slots :
        (/\ reqs[s].kind = "login" /\ reqs[s].pc = "done"
         /\ \E u \in users : u.is_active /\ CorrectLoginOf(reqs[s], u)) =>
            reqs[s].status = 200 /\ reqs[s].tokens

\* C15: a login with a wrong password or an unknown username or email is
\* answered 401, a login with the right credentials of a disabled account 403;
\* neither issues a token nor changes a profile.
C15_FailedLoginStep ==
    \A s \in Slots :
        (/\ reqs'[s] # reqs[s]
         /\ reqs'[s].kind = "login" /\ reqs'[s].pc = "done"
         /\ reqs'[s].name # "" /\ reqs'[s].password # "") =>
            /\ (\A u \in users : ~CorrectLoginOf(reqs'[s], u)) =>
                  reqs'[s].status = 401 /\ ~reqs'[s].tokens /\ profiles' = profiles
            /\ (\E u \in users : ~u.is_active /\ CorrectLoginOf(reqs'[s], u)) =>
                  reqs'[s].status = 403 /\ ~reqs'[s].tokens /\ profiles' = profiles
\* C15: every login that fails is answered 401 (bad credentials) or 403
\* (disabled account) and leaves tokens and profiles alone.
C15_FailedLoginsAreRefused == [][C15_FailedLoginStep]_vars

\* C16: once the login requests have completed, the login_count of every
\* profile is its initial value (0) plus the number of logins of its user that
\* were answered 200, also when the requests overlapped.
C16_LoginCountCountsLogins ==
    (\A s \in Slots : reqs[s].pc \in {"idle", "done"}) =>
        \A p \in profiles : p.login_count = ok_logins[p.user]

(***************************************************************************)
(* Properties of the User and UserProfile tables (checked under            *)
(* SpecRegister)                                                           *)
(***************************************************************************)
\* C17: after any sequence of registrations (API and HTML, overlapping or
\* not) no two User rows have the same username or the same email address.
C17_NoTwoUsersShare ==
    \A u1 \in users, u2 \in users :
        u1 # u2 => u1.username # u2.username /\ u1.email # u2.email

OverlappedActivations ==
    /\ \A s \in ActivateSlots :
         /\ activations[s].pc = "done" /\ activations[s].status = 200
         /\ activations[s].overlapped
    /\ activations[1].config.name # activations[2].config.name
    /\ activations[1].config.provider = activations[2].config.provider

IsActive(name) == configs[IndexOf(configs, name)].is_active

\* C21: when activate(c1) and activate(c2) for two different configurations
\* of the same provider have overlapped and both have completed, exactly one
\* of c1 and c2 is active.
C21_ConcurrentActivationOneWinner ==
    OverlappedActivations =>
        IsActive(activations[1].config.name) # IsActive(activations[2].config.name)

====
